---- MODULE Spec2Model ----
(***************************************************************************)
(* Model of pkg/subnet/public.go: the PublicDeployer that builds, signs    *)
(* and issues subnet governance transactions, on the direct path (one      *)
(* subnet auth key) or the multisig path (partially signed transaction     *)
(* handed from signer to signer, then committed).                          *)
(*                                                                         *)
(* One action per exported method.  An action is the whole call: it takes  *)
(* the arguments and the answers of the collaborators (wallet loading,     *)
(* builder, signer, node) as inputs and records in `last` what the call    *)
(* returned and every builder / signer / node request it made.             *)
(***************************************************************************)
EXTENDS Integers, Sequences, FiniteSets, TLC

\* ------------------------------------------------------------------------
\* Bounds
\* ------------------------------------------------------------------------
\* longest subnet auth key list / control key list passed to a call
MaxAuth == 2
\* largest threshold passed to Deploy
MaxThreshold == 2

\* ------------------------------------------------------------------------
\* Addresses and address strings
\* ------------------------------------------------------------------------
\* short IDs of the addresses
Addr == {"X", "Y", "Z"}

\* byte order of the short IDs (the order the chain keeps owner addresses in)
Rank(a) == CASE a = "X" -> 1 [] a = "Y" -> 2 [] OTHER -> 3

\* an address string "P-<hrp>1..." : chain alias and encoded short ID
AddrStr(a) == <<"P", a>>

\* a string that is not a well formed address
Malformed == <<"bad">>

Strs == {AddrStr(a) : a \in Addr} \cup {Malformed}

\* the sequences over S of length n
RECURSIVE SeqsOfLen(_, _)
SeqsOfLen(S, n) ==
    IF n = 0 THEN {<<>>}
    ELSE {Append(s, x) : s \in SeqsOfLen(S, n - 1), x \in S}

Range(s) == {s[i] : i \in 1..Len(s)}

NoDup(s) == \A i, j \in 1..Len(s) : i # j => s[i] # s[j]

\* the key lists a caller passes: at most MaxAuth strings, no string twice
KeyLists == UNION {{s \in SeqsOfLen(Strs, n) : NoDup(s)} : n \in 0..MaxAuth}

\* the orders in which Set.List() may enumerate the set S
Lists(S) == {s \in SeqsOfLen(S, Cardinality(S)) : NoDup(s)}

\* address.ParseToIDs: every string must parse; the short IDs in list order
ParseOk(strs) == \A i \in 1..Len(strs) : Len(strs[i]) = 2
ParseToIDs(strs) == [i \in 1..Len(strs) |-> strs[i][2]]

\* ------------------------------------------------------------------------
\* Transactions
\* ------------------------------------------------------------------------
Empty == "Empty"          \* ids.Empty

NoOwner == [addrs |-> {}, threshold |-> 0]

\* a transaction: the unsigned body (kind, subnet, auth, change, owner) and
\* the signatures attached for the subnet auth credential.
\*   auth   the owner addresses whose signatures the body asks for
\*   change the OutputOwners that receive the change of the fee payment
\*   owner  the subnet owner a CreateSubnet body carries
MkTx(kind, subnet, auth, change, owner, sigs) ==
    [kind |-> kind, subnet |-> subnet, auth |-> auth, change |-> change,
     owner |-> owner, sigs |-> sigs]

NoChange == [threshold |-> 0, addrs |-> <<>>]

NoTx == MkTx("nil", 0, {}, NoChange, NoOwner, {})     \* a nil *txs.Tx

Body(tx) == [kind |-> tx.kind, subnet |-> tx.subnet, auth |-> tx.auth,
             change |-> tx.change, owner |-> tx.owner]

\* the credential is complete: every signature the body asks for is there
FullySigned(tx) == tx.auth \subseteq tx.sigs

\* the ID of an issued transaction
TxID(tx) == tx.kind


\* ------------------------------------------------------------------------
\* The wallet library and the node, as the deployer uses them
\* ------------------------------------------------------------------------
\* the transaction kinds whose body carries a subnet auth
NeedsAuth(kind) ==
    kind \in {"AddSubnetValidator", "RemoveSubnetValidator", "CreateChain",
              "TransformSubnet"}

\* the addresses of S in byte order
RECURSIVE SortAddrs(_)
SortAddrs(S) ==
    IF S = {} THEN <<>>
    ELSE LET m == CHOOSE a \in S : \A b \in S : Rank(a) <= Rank(b)
         IN  <<m>> \o SortAddrs(S \ {m})

\* the first n entries of s
Take(s, n) == SubSeq(s, 1, IF n < Len(s) THEN n ELSE Len(s))

\* the builder authorizes a subnet transaction with the first `threshold`
\* owner addresses among the addresses it may use, and fails without them
CanAuthorize(owner, avail) ==
    Cardinality(owner.addrs \cap avail) >= owner.threshold

AuthOf(owner, avail) ==
    Range(Take(SortAddrs(owner.addrs \cap avail), owner.threshold))

\* the builder pays the fee from UTXOs of the addresses it may use that the
\* wallet has loaded, that is, of keychain addresses
HasFunds(avail, kcset) == avail \cap kcset # {}

\* the signer fills every empty signature slot whose key the keychain
\* holds and keeps the signatures that are already there
SignWith(tx, kcset) == [tx EXCEPT !.sigs = @ \cup (tx.auth \cap kcset)]

\* OutputOwners.Verify, as the node applies it to a CreateSubnet owner
ValidOwner(o) ==
    /\ o.threshold <= Cardinality(o.addrs)
    /\ ~(o.threshold = 0 /\ o.addrs # {})

\* what the node requires of a submitted transaction
NodeAccepts(tx) ==
    /\ tx.kind # "nil"
    /\ FullySigned(tx)
    /\ tx.kind = "CreateSubnet" => ValidOwner(tx.owner)

\* ------------------------------------------------------------------------
\* Errors, and the record of one call
\* ------------------------------------------------------------------------
Nil == "nil"
ErrNoSubnetAuthKeysInWallet == "wallet does not contain subnet auth keys"
ErrParse == "failure parsing subnet auth keys"
ErrControlKeys == "failure parsing control keys"
ErrVMID == "failed to create VM ID"
ErrWallet == "wallet load failed"
ErrBuild == "builder failed"
ErrSign == "signer failed"
ErrIssue == "node rejected"
Panic == "index out of range"

\* the answers of the collaborators during one call: everything works, or
\* the named request fails (the "subnet..." ones are those of the
\* CreateSubnet transaction of Deploy)
FailPoints == {"none", "wallet", "vmid", "build", "sign", "net",
               "subnetBuild", "subnetSign", "subnetNet"}

\* what a library request did: its error, the ID and transaction it
\* produced, and the builder / signer / node requests it made, in order
Eff(err, id, tx, trace, built, submitted, accepted) ==
    [err |-> err, id |-> id, tx |-> tx, trace |-> trace, built |-> built,
     submitted |-> submitted, accepted |-> accepted]

\* what a call of the deployer returned and did
\*   full, tx, id, subnetID, err   the returned values (those the method has)
\*   path       "direct", "multisig" or "none" (ended before the branch)
\*   printed    the transaction ID shown to the user
\*   trace      the stages the call went through, in order
\*   built      the unsigned transactions the builder produced
\*   submitted  the transactions sent to the node
\*   accepted   the transactions the node accepted
Ret(full, tx, id, subnetID, err, path, printed, e) ==
    [full |-> full, tx |-> tx, id |-> id, subnetID |-> subnetID,
     err |-> err, path |-> path, printed |-> printed, trace |-> e.trace,
     built |-> e.built, submitted |-> e.submitted, accepted |-> e.accepted]

NoEff == Eff(Nil, Empty, NoTx, <<>>, <<>>, <<>>, <<>>)

\* e1 followed by e2
Then(e1, e2) ==
    Eff(e2.err, e2.id, e2.tx, e1.trace \o e2.trace, e1.built \o e2.built,
        e1.submitted \o e2.submitted, e1.accepted \o e2.accepted)

Stage(name) == Eff(Nil, Empty, NoTx, <<name>>, <<>>, <<>>, <<>>)

\* ------------------------------------------------------------------------
\* Library requests
\* ------------------------------------------------------------------------
\* Builder().New...Tx(args, options...): the unsigned transaction
\*   avail   the addresses the builder may use (the keychain's, or the
\*           custom addresses of the options)
\*   change  the change owner (the option's, or the library default)
BuildTx(kind, subnet, owner, newOwner, avail, change, kcset, fail) ==
    IF \/ fail
       \/ ~HasFunds(avail, kcset)
       \/ NeedsAuth(kind) /\ ~CanAuthorize(owner, avail)
    THEN Eff(ErrBuild, Empty, NoTx, <<"build">>, <<>>, <<>>, <<>>)
    ELSE LET tx == MkTx(kind, subnet,
                        IF NeedsAuth(kind) THEN AuthOf(owner, avail) ELSE {},
                        change, newOwner, {})
         IN  Eff(Nil, Empty, tx, <<"build">>, <<tx>>, <<>>, <<>>)

\* Signer().Sign(ctx, tx): on failure the slots signed so far stay signed
\*   part   the slots signed before the failure
SignTx(tx, kcset, fail, part) ==
    IF fail
    THEN Eff(ErrSign, Empty, [tx EXCEPT !.sigs = @ \cup part], <<"sign">>,
             <<>>, <<>>, <<>>)
    ELSE Eff(Nil, Empty, SignWith(tx, kcset), <<"sign">>, <<>>, <<>>, <<>>)

\* IssueTx(tx): the transaction is sent to the node whatever it carries
IssueTx(tx, fail) ==
    IF fail \/ ~NodeAccepts(tx)
    THEN Eff(ErrIssue, Empty, tx, <<"issue">>, <<>>, <<tx>>, <<>>)
    ELSE Eff(Nil, TxID(tx), tx, <<"issue">>, <<>>, <<tx>>, <<tx>>)

\* Issue...Tx(args): build with the wallet's own addresses and the default
\* change owner, sign, issue
\*   f   the request that fails: "none", "build", "sign" or "net"
IssueNewTx(kind, subnet, owner, newOwner, change, kcset, f) ==
    LET b == BuildTx(kind, subnet, owner, newOwner, kcset, change, kcset,
                     f = "build")
    IN  IF b.err # Nil THEN b
        ELSE LET sg == Then(b, SignTx(b.tx, kcset, f = "sign", {}))
             IN  IF sg.err # Nil THEN [sg EXCEPT !.tx = NoTx]
                 ELSE Then(sg, IssueTx(sg.tx, f = "net"))

\* ------------------------------------------------------------------------
\* PublicDeployer: helpers
\* ------------------------------------------------------------------------
\* the library's default change owner: the address Set.Peek() picked among
\* those the builder may use, none when there is no address
NoAddr == "none"

Peeks(S) == IF S = {} THEN {NoAddr} ELSE S

DefaultChange(a) ==
    IF a = NoAddr THEN NoChange ELSE [threshold |-> 1, addrs |-> <<a>>]

\* the entries of subnetAuth equal to the wallet addresses from the i-th
\* on: the outer loop runs over the wallet addresses, the inner over
\* subnetAuth
RECURSIVE InWalletFrom(_, _, _)
InWalletFrom(walletAddrs, subnetAuth, i) ==
    IF i > Len(walletAddrs) THEN <<>>
    ELSE SelectSeq(subnetAuth, LAMBDA addr : addr = walletAddrs[i])
         \o InWalletFrom(walletAddrs, subnetAuth, i + 1)

\* get wallet addresses that are also subnet auth addresses
\*   walletAddrs   d.kc.Addresses().List()
getSubnetAuthAddressesInWallet(walletAddrs, subnetAuth) ==
    InWalletFrom(walletAddrs, subnetAuth, 1)

\* the check left out
checkAlwaysPasses(walletAddrs, subnetAuth) == TRUE

\* the wallet only has to hold some address
checkWalletNotEmpty(walletAddrs, subnetAuth) == Len(walletAddrs) # 0

\* check that the wallet at least contain one subnet auth address
checkWalletHasSubnetAuthAddresses(walletAddrs, subnetAuth) ==
    Len(getSubnetAuthAddressesInWallet(walletAddrs, subnetAuth)) # 0

\* the change sent to the first subnet auth key instead of a wallet address
optionsChangeToFirstAuthKey(walletAddrs, subnetAuthKeys) ==
    IF Len(getSubnetAuthAddressesInWallet(walletAddrs, subnetAuthKeys)) = 0
    THEN [panic |-> TRUE, addrs |-> Range(subnetAuthKeys),
          changeOwner |-> NoChange]
    ELSE [panic |-> FALSE, addrs |-> Range(subnetAuthKeys),
          changeOwner |-> [threshold |-> 1, addrs |-> <<subnetAuthKeys[1]>>]]

\* the options of a multisig build: the addresses to sign with and the
\* change owner; walletAddresses[0] panics on an empty intersection
getMultisigTxOptions(walletAddrs, subnetAuthKeys) ==
    LET walletAddresses ==
            getSubnetAuthAddressesInWallet(walletAddrs, subnetAuthKeys)
    IN  IF Len(walletAddresses) = 0
        THEN [panic |-> TRUE, addrs |-> Range(subnetAuthKeys),
              changeOwner |-> NoChange]
        ELSE [panic |-> FALSE, addrs |-> Range(subnetAuthKeys),
              changeOwner |-> [threshold |-> 1,
                               addrs |-> <<walletAddresses[1]>>]]

\* the signer's error dropped: the transaction returned as it stands
createMultisigTxIgnoresSignErr(kind, subnetAuthKeys, subnet, owner, walletAddrs, kcset, f) ==
    LET options == getMultisigTxOptions(walletAddrs, subnetAuthKeys)
    IN  IF options.panic
        THEN Eff(Panic, Empty, NoTx, <<>>, <<>>, <<>>, <<>>)
        ELSE LET b == BuildTx(kind, subnet, owner, NoOwner, options.addrs,
                              options.changeOwner, kcset, f = "build")
             IN  IF b.err # Nil THEN b
                 ELSE [Then(b, SignTx(b.tx, kcset, f = "sign", {}))
                          EXCEPT !.err = Nil]

\* the multisig builders: options, build, sign with the current wallet
\*   f   the request that fails: "none", "build" or "sign"
createMultisigTx(kind, subnetAuthKeys, subnet, owner, walletAddrs, kcset, f) ==
    LET options == getMultisigTxOptions(walletAddrs, subnetAuthKeys)
    IN  IF options.panic
        THEN Eff(Panic, Empty, NoTx, <<>>, <<>>, <<>>, <<>>)
        ELSE LET b == BuildTx(kind, subnet, owner, NoOwner, options.addrs,
                              options.changeOwner, kcset, f = "build")
             IN  IF b.err # Nil THEN b
                 ELSE LET sg == Then(b, SignTx(b.tx, kcset, f = "sign", {}))
                      IN  IF sg.err # Nil THEN [sg EXCEPT !.tx = NoTx]
                          ELSE sg

\* the signer run although the build returned an error
createAddSubnetValidatorTxSignsAnyway(subnetAuthKeys, subnet, owner, walletAddrs, kcset, f) ==
    LET m == createMultisigTx("AddSubnetValidator", subnetAuthKeys, subnet,
                              owner, walletAddrs, kcset, f)
    IN  IF m.err = ErrBuild THEN Then(m, SignTx(NoTx, kcset, FALSE, {}))
        ELSE m

createAddSubnetValidatorTx(subnetAuthKeys, subnet, owner, walletAddrs, kcset, f) ==
    createMultisigTx("AddSubnetValidator", subnetAuthKeys, subnet, owner,
                     walletAddrs, kcset, f)

\* the transaction returned without the wallet's signature
createRemoveValidatorTXUnsigned(subnetAuthKeys, subnet, owner, walletAddrs, kcset, f) ==
    LET m == createMultisigTx("RemoveSubnetValidator", subnetAuthKeys, subnet,
                              owner, walletAddrs, kcset, f)
    IN  IF m.err # Nil THEN m ELSE [m EXCEPT !.tx.sigs = {}]

createRemoveValidatorTX(subnetAuthKeys, subnet, owner, walletAddrs, kcset, f) ==
    createMultisigTx("RemoveSubnetValidator", subnetAuthKeys, subnet, owner,
                     walletAddrs, kcset, f)

\* the partially signed blockchain transaction issued as well
createBlockchainTxIssued(subnetAuthKeys, subnet, owner, walletAddrs, kcset, f) ==
    LET m == createMultisigTx("CreateChain", subnetAuthKeys, subnet, owner,
                              walletAddrs, kcset, f)
    IN  IF m.err # Nil THEN m
        ELSE [Then(m, IssueTx(m.tx, FALSE)) EXCEPT !.err = Nil, !.tx = m.tx]

createBlockchainTx(subnetAuthKeys, subnet, owner, walletAddrs, kcset, f) ==
    createMultisigTx("CreateChain", subnetAuthKeys, subnet, owner,
                     walletAddrs, kcset, f)

createAndIssueBlockchainTx(subnet, owner, change, kcset, f) ==
    IssueNewTx("CreateChain", subnet, owner, NoOwner, change, kcset, f)

\* d.loadWallet(...): fetches the wallet state from the network API
\*   fail   the API does not answer (or the network is unsupported)
loadWallet(fail) ==
    IF fail THEN Eff(ErrWallet, Empty, NoTx, <<"loadWallet">>, <<>>, <<>>, <<>>)
    ELSE Stage("loadWallet")

\* the credentials rebuilt from the wallet's keys alone
signTxDropsOthers(tx, kcset, fail, part) ==
    LET sg == SignTx(tx, kcset, fail, part)
    IN  [sg EXCEPT !.tx.sigs = @ \ tx.sigs]

\* signTx(tx, wallet): the wallet's signer signs the transaction in place
signTx(tx, kcset, fail, part) == SignTx(tx, kcset, fail, part)

\* the CreateSubnet transaction built and signed but not issued
createSubnetTxNotIssued(controlKeys, threshold, newSubnet, change, kcset, f) ==
    IF ~ParseOk(controlKeys)
    THEN Eff(ErrControlKeys, Empty, NoTx, <<>>, <<>>, <<>>, <<>>)
    ELSE LET owners == [addrs |-> Range(ParseToIDs(controlKeys)),
                        threshold |-> threshold]
             b == BuildTx("CreateSubnet", newSubnet, NoOwner, owners, kcset,
                          change, kcset, f = "build")
         IN  IF b.err # Nil THEN b
             ELSE Then(b, SignTx(b.tx, kcset, f = "sign", {}))

\* createSubnetTx: parse the control keys, issue the CreateSubnet
\* transaction with them and the threshold as owner
\*   newSubnet   the ID the subnet gets when the node accepts it
createSubnetTx(controlKeys, threshold, newSubnet, change, kcset, f) ==
    IF ~ParseOk(controlKeys)
    THEN Eff(ErrControlKeys, Empty, NoTx, <<>>, <<>>, <<>>, <<>>)
    ELSE LET owners == [addrs |-> Range(ParseToIDs(controlKeys)),
                        threshold |-> threshold]
         IN  IssueNewTx("CreateSubnet", newSubnet, NoOwner, owners, change,
                        kcset, f)

\* ------------------------------------------------------------------------
\* PublicDeployer: the exported methods, as functions of their arguments,
\* the keychain, the chain state and the collaborators' answers
\*   l1, l2   the orders d.kc.Addresses().List() gave in the signer check
\*            and in getMultisigTxOptions
\*   lc       the address the library picked for the default change owner
\*   f        the request that fails (FailPoints)
\* ------------------------------------------------------------------------
Lib(f) == IF f \in {"build", "sign", "net"} THEN f ELSE "none"

SubnetLib(f) ==
    CASE f = "subnetBuild" -> "build"
      [] f = "subnetSign" -> "sign"
      [] f = "subnetNet" -> "net"
      [] OTHER -> "none"

\* the comparison the wrong way round
singleKeyInverted(keys) == Len(keys) > 1

\* the direct path taken for every non-empty list
singleKeyOrMore(keys) == Len(keys) >= 1

\* len(subnetAuthKeys) == 1: the call issues the transaction itself
singleKey(keys) == Len(keys) = 1

\* AddValidator and RemoveValidator: the same steps around their own
\* issue / create calls
ValidatorCall(kind, strs, subnet, owner, kcset, l1, l2, lc, f) ==
    LET w == loadWallet(f = "wallet")
    IN  IF w.err # Nil
        THEN Ret(FALSE, NoTx, Empty, 0, w.err, "none", Empty, w)
        ELSE IF ~ParseOk(strs)
        THEN Ret(FALSE, NoTx, Empty, 0, ErrParse, "none", Empty,
                 Then(w, Stage("parse")))
        ELSE
        LET subnetAuthKeys == ParseToIDs(strs)
            c == Then(Then(w, Stage("parse")), Stage("check"))
        IN  IF ~checkWalletHasSubnetAuthAddresses(l1, subnetAuthKeys)
            THEN Ret(FALSE, NoTx, Empty, 0, ErrNoSubnetAuthKeysInWallet,
                     "none", Empty, c)
            ELSE IF singleKey(subnetAuthKeys)
            THEN LET i == Then(c, IssueNewTx(kind, subnet, owner, NoOwner,
                                             DefaultChange(lc), kcset, Lib(f)))
                 IN  IF i.err # Nil
                     THEN Ret(FALSE, NoTx, Empty, 0, i.err, "direct", Empty, i)
                     ELSE Ret(TRUE, NoTx, Empty, 0, Nil, "direct", i.id, i)
            ELSE LET m == Then(c, IF kind = "AddSubnetValidator"
                                  THEN createAddSubnetValidatorTx(
                                           subnetAuthKeys, subnet, owner, l2,
                                           kcset, Lib(f))
                                  ELSE createRemoveValidatorTX(
                                           subnetAuthKeys, subnet, owner, l2,
                                           kcset, Lib(f)))
                 IN  IF m.err # Nil
                     THEN Ret(FALSE, NoTx, Empty, 0, m.err, "multisig", Empty, m)
                     ELSE Ret(FALSE, m.tx, Empty, 0, Nil, "multisig", Empty, m)

\* the direct path returning isFullySigned = false after the issue
AddValidatorCallNotFull(strs, subnet, owner, kcset, l1, l2, lc, f) ==
    [ValidatorCall("AddSubnetValidator", strs, subnet, owner, kcset, l1, l2,
                   lc, f) EXCEPT !.full = FALSE]

AddValidatorCall(strs, subnet, owner, kcset, l1, l2, lc, f) ==
    ValidatorCall("AddSubnetValidator", strs, subnet, owner, kcset, l1, l2,
                  lc, f)

RemoveValidatorCall(strs, subnet, owner, kcset, l1, l2, lc, f) ==
    ValidatorCall("RemoveSubnetValidator", strs, subnet, owner, kcset, l1,
                  l2, lc, f)

\* CreateAssetTx, ExportToPChainTx, ImportFromXChain, TransformSubnetTx:
\* no parse, no signer check; one key string: issue; otherwise return
\* without error and without transaction
\*   retID   the method returns the ID of the issued transaction
UncheckedCall(kind, retID, strs, subnet, owner, kcset, lc, f) ==
    LET w == loadWallet(f = "wallet")
    IN  IF w.err # Nil
        THEN Ret(FALSE, NoTx, Empty, 0, w.err, "none", Empty, w)
        ELSE IF singleKey(strs)
        THEN LET i == Then(w, IssueNewTx(kind, subnet, owner, NoOwner,
                                         DefaultChange(lc), kcset, Lib(f)))
             IN  IF i.err # Nil
                 THEN Ret(FALSE, NoTx, Empty, 0, i.err, "direct", Empty, i)
                 ELSE Ret(TRUE, NoTx, IF retID THEN i.id ELSE Empty, 0, Nil,
                          "direct", i.id, i)
        ELSE Ret(FALSE, NoTx, Empty, 0, Nil, "multisig", Empty, w)

CreateAssetTxCall(strs, subnet, owner, kcset, lc, f) ==
    UncheckedCall("CreateAsset", TRUE, strs, subnet, owner, kcset, lc, f)

ExportToPChainTxCall(strs, subnet, owner, kcset, lc, f) ==
    UncheckedCall("Export", FALSE, strs, subnet, owner, kcset, lc, f)

ImportFromXChainCall(strs, subnet, owner, kcset, lc, f) ==
    UncheckedCall("Import", FALSE, strs, subnet, owner, kcset, lc, f)

TransformSubnetTxCall(strs, subnet, owner, kcset, lc, f) ==
    UncheckedCall("TransformSubnet", FALSE, strs, subnet, owner, kcset, lc, f)

\* Deploy: signer check, CreateSubnet issued, then the blockchain
\* transaction issued (one auth key) or built and signed (otherwise)
\*   newSubnet   the ID the created subnet gets
DeployCall(controlKeys, strs, threshold, newSubnet, kcset, l1, l2, lc, f) ==
    LET w == loadWallet(f = "wallet")
    IN  IF w.err # Nil
        THEN Ret(FALSE, NoTx, Empty, 0, w.err, "none", Empty, w)
        ELSE IF f = "vmid"
        THEN Ret(FALSE, NoTx, Empty, 0, ErrVMID, "none", Empty, w)
        ELSE IF ~ParseOk(strs)
        THEN Ret(FALSE, NoTx, Empty, 0, ErrParse, "none", Empty,
                 Then(w, Stage("parse")))
        ELSE
        LET subnetAuthKeys == ParseToIDs(strs)
            c == Then(Then(w, Stage("parse")), Stage("check"))
        IN  IF ~checkWalletHasSubnetAuthAddresses(l1, subnetAuthKeys)
            THEN Ret(FALSE, NoTx, Empty, 0, ErrNoSubnetAuthKeysInWallet,
                     "none", Empty, c)
            ELSE
            LET sn == Then(c, createSubnetTx(controlKeys, threshold, newSubnet,
                                             DefaultChange(lc), kcset,
                                             SubnetLib(f)))
            IN  IF sn.err # Nil
                THEN Ret(FALSE, NoTx, Empty, 0, sn.err, "none", Empty, sn)
                ELSE
                LET owner == sn.tx.owner
                IN  IF singleKey(subnetAuthKeys)
                    THEN LET i == Then(sn, createAndIssueBlockchainTx(
                                               newSubnet, owner,
                                               DefaultChange(lc), kcset, Lib(f)))
                         IN  IF i.err # Nil
                             THEN Ret(FALSE, NoTx, Empty, 0, i.err, "direct",
                                      Empty, i)
                             ELSE Ret(TRUE, NoTx, i.id, newSubnet, Nil,
                                      "direct", Empty, i)
                    ELSE LET m == Then(sn, createBlockchainTx(
                                               subnetAuthKeys, newSubnet, owner,
                                               l2, kcset, Lib(f)))
                         IN  IF m.err # Nil
                             THEN Ret(FALSE, NoTx, Empty, 0, m.err, "multisig",
                                      Empty, m)
                             ELSE Ret(FALSE, m.tx, Empty, newSubnet, Nil,
                                      "multisig", Empty, m)

\* the wallet loaded and nothing sent to the node
CommitCallNoIssue(tx, f) ==
    LET w == loadWallet(f = "wallet")
    IN  Ret(FALSE, NoTx, Empty, 0, w.err, "none", Empty, w)

\* Commit: load the wallet, issue the transaction as it is
CommitCall(tx, f) ==
    LET w == loadWallet(f = "wallet")
    IN  IF w.err # Nil
        THEN Ret(FALSE, NoTx, Empty, 0, w.err, "none", Empty, w)
        ELSE LET i == Then(w, IssueTx(tx, f = "net"))
             IN  Ret(FALSE, NoTx, i.id, 0, i.err, "none", Empty, i)

\* Sign: signer check, then the wallet signs the transaction in place;
\* the tx field of the result is the transaction after the call
SignCall(tx, strs, kcset, l1, f, part) ==
    LET w == loadWallet(f = "wallet")
    IN  IF w.err # Nil
        THEN Ret(FALSE, tx, Empty, 0, w.err, "none", Empty, w)
        ELSE IF ~ParseOk(strs)
        THEN Ret(FALSE, tx, Empty, 0, ErrParse, "none", Empty,
                 Then(w, Stage("parse")))
        ELSE
        LET subnetAuthKeys == ParseToIDs(strs)
            c == Then(Then(w, Stage("parse")), Stage("check"))
        IN  IF ~checkWalletHasSubnetAuthAddresses(l1, subnetAuthKeys)
            THEN Ret(FALSE, tx, Empty, 0, ErrNoSubnetAuthKeysInWallet,
                     "none", Empty, c)
            ELSE LET sg == Then(c, signTx(tx, kcset, f = "sign", part))
                 IN  Ret(FALSE, sg.tx, Empty, 0, sg.err, "none", Empty, sg)

\* ------------------------------------------------------------------------
\* State
\* ------------------------------------------------------------------------
VARIABLES
    kc,        \* the addresses of the deployer's keychain (d.kc)
    heldTx,    \* the transaction the caller holds for Sign and Commit
    last       \* the call this deployer made: arguments, result, requests

\* validateSubnet: the state of one run of the command
VARIABLES
    hosts,                  \* the hosts of the cluster's inventory (NodeIDs)
    mainPc,                 \* where the command's own goroutine is
    spawned,                \* the hosts the first loop has started a task for
    taskPc,                 \* where the task of each host is
    taskRes,                \* what getNodeSubnetSyncStatus returned to each task
    parallelWaitGroup,      \* the counter of the sync.WaitGroup
    nodeResultChannel,      \* the results in the channel's buffer, oldest first
    closed,                 \* nodeResultChannel has been closed
    NodeSubnetSyncStatus,   \* the map the drain loop fills, by NodeID
    readLog,                \* by NodeID, how many results the drain loop received
    panicked,               \* a task sent on the closed channel
    cur,                    \* the position in hosts of the per-host loop
    failedNodes,            \* the NodeIDs of the hosts that failed, in order
    nodeErrors,             \* the error of each failed host, in the same order
    hostLog,                \* what the per-host loop did for each host
    pollSeen,               \* the answers of the checks of the current wait
    pollRet,                \* what the wait for the current host returned
    retErr                  \* the error validateSubnet returned

\* getChainID: the state of one call
VARIABLES
    knownChainIDs,   \* the chain IDs of the subnets the app knows, as strings
    chainPc,         \* where the call is: at the prompt, at the lookup, returned
    entered,         \* the chain IDs the prompt has captured, in order
    reported,        \* what ChainIDExists answered for each of them
    chainRet         \* what getChainID returned: chain ID and error

\* GcpCloud.waitForOperation: the state of one call
VARIABLES
    now,             \* the clock, in seconds since the call began
    deadline,        \* time.Now().Add(timeout) at the start of the call
    ctxDone,         \* c.ctx has been cancelled
    gcpPc,           \* where the call is: at the Get request, at the select, returned
    getCalls,        \* the status requests made so far
    lastStatus,      \* the answer of the last status request
    gcpRet           \* the error waitForOperation returned

deployerVars == <<kc, heldTx, last>>

chainIDVars == <<knownChainIDs, chainPc, entered, reported, chainRet>>

gcpVars == <<now, deadline, ctxDone, gcpPc, getCalls, lastStatus, gcpRet>>

\* the commands of the other packages
otherVars == <<chainIDVars, gcpVars>>

\* the fan-out and the drain loop
fanOutVars ==
    <<spawned, taskPc, taskRes, parallelWaitGroup, nodeResultChannel, closed,
      NodeSubnetSyncStatus, readLog, panicked>>

\* the per-host loop and the report
loopVars == <<cur, failedNodes, nodeErrors, hostLog, pollSeen, pollRet, retErr>>

validateVars == <<hosts, mainPc, fanOutVars, loopVars>>

vars == <<deployerVars, validateVars, chainIDVars, gcpVars>>

\* a nil *big.Int
NoChainID == 0

\* no call of getChainID has begun
ChainIDIdle ==
    /\ knownChainIDs = {}
    /\ chainPc = "idle"
    /\ entered = <<>>
    /\ reported = <<>>
    /\ chainRet = [chainID |-> NoChainID, err |-> Nil]

\* no call of waitForOperation has begun
GcpIdle ==
    /\ now = 0
    /\ deadline = 0
    /\ ctxDone = FALSE
    /\ gcpPc = "idle"
    /\ getCalls = 0
    /\ lastStatus = "none"
    /\ gcpRet = Nil

\* no run of validateSubnet has begun
ValidateIdle ==
    /\ hosts = <<>>
    /\ mainPc = "start"
    /\ spawned = 0
    /\ taskPc = <<>>
    /\ taskRes = <<>>
    /\ parallelWaitGroup = 0
    /\ nodeResultChannel = <<>>
    /\ closed = FALSE
    /\ NodeSubnetSyncStatus = <<>>
    /\ readLog = <<>>
    /\ panicked = FALSE
    /\ cur = 1
    /\ failedNodes = <<>>
    /\ nodeErrors = <<>>
    /\ hostLog = <<>>
    /\ pollSeen = <<>>
    /\ pollRet = Nil
    /\ retErr = Nil

\* the subnets on the P-chain the calls can name, by subnet ID, with their
\* owners: 1 of 1, 2 of 2, 2 of 3 and 1 of 2
chain ==
    << [addrs |-> {"X"}, threshold |-> 1],
       [addrs |-> {"X", "Y"}, threshold |-> 2],
       [addrs |-> {"X", "Y", "Z"}, threshold |-> 2],
       [addrs |-> {"Y", "Z"}, threshold |-> 1] >>

\* the call record: arguments and what Ret holds
\*   fail   the collaborator request that was set to fail
Call(op, strs, subnet, arg, fail, r) ==
    [op |-> op, strs |-> strs, subnet |-> subnet, arg |-> arg, fail |-> fail,
     full |-> r.full, tx |-> r.tx, id |-> r.id, subnetID |-> r.subnetID,
     err |-> r.err, path |-> r.path, printed |-> r.printed,
     trace |-> r.trace, built |-> r.built, submitted |-> r.submitted,
     accepted |-> r.accepted]

Idle == Call("none", <<>>, 0, NoTx, "none",
             Ret(FALSE, NoTx, Empty, 0, Nil, "none", Empty, NoEff))

\* the state after a call: the caller keeps a returned transaction
Done(op, strs, subnet, arg, fail, r) ==
    /\ last' = Call(op, strs, subnet, arg, fail, r)
    /\ heldTx' = IF r.tx # NoTx THEN r.tx ELSE heldTx
    /\ UNCHANGED kc
    /\ UNCHANGED <<validateVars, otherVars>>

\* the failures a call other than Deploy can meet
OpFails == {"none", "wallet", "build", "sign", "net"}

\* control key lists in byte order (createSubnetTx keeps only their set)
Ordered(s) ==
    \A i, j \in 1..Len(s) :
        (i < j /\ Len(s[i]) = 2 /\ Len(s[j]) = 2) => Rank(s[i][2]) < Rank(s[j][2])

ControlKeyLists ==
    {s \in KeyLists : Ordered(s) /\ \A i \in 1..Len(s) :
                          Len(s[i]) = 1 => i = Len(s)}

\* a command starts with a deployer that has made no call and a caller
\* that holds no transaction
Init ==
    /\ kc \in SUBSET Addr
    /\ heldTx = NoTx
    /\ last = Idle
    /\ ValidateIdle
    /\ ChainIDIdle
    /\ GcpIdle

\* NewPublicDeployer(app, usingLedger, kc, network): every command builds
\* its own deployer around the keychain of the party that runs it; the
\* party was handed the transaction of the previous command or starts anew
NewPublicDeployer ==
    \E k \in SUBSET Addr, handed \in BOOLEAN :
        /\ kc' = k
        /\ heldTx' = IF handed THEN heldTx ELSE NoTx
        /\ last' = Idle
        /\ UNCHANGED <<validateVars, otherVars>>

\* a deployer makes one call; the calls that create a transaction are made
\* by a caller that holds none
Fresh == last = Idle /\ heldTx = NoTx

\* In the actions the listing of the signer check is the keychain in byte
\* order: the check only asks whether the intersection is empty, which the
\* order of the listing cannot change.  The listing getMultisigTxOptions
\* gets is any order of the keychain.

AddValidator ==
    /\ Fresh
    /\ \E strs \in KeyLists, subnet \in 1..Len(chain), f \in OpFails,
          l \in Lists(kc), c \in Peeks(kc) :
        Done("AddValidator", strs, subnet, NoTx, f,
             AddValidatorCall(strs, subnet, chain[subnet], kc,
                              SortAddrs(kc), l, c, f))

RemoveValidator ==
    /\ Fresh
    /\ \E strs \in KeyLists, subnet \in 1..Len(chain), f \in OpFails,
          l \in Lists(kc), c \in Peeks(kc) :
        Done("RemoveValidator", strs, subnet, NoTx, f,
             RemoveValidatorCall(strs, subnet, chain[subnet], kc,
                                 SortAddrs(kc), l, c, f))

CreateAssetTx ==
    /\ Fresh
    /\ \E strs \in KeyLists, subnet \in 1..Len(chain), f \in OpFails,
          c \in Peeks(kc) :
        Done("CreateAssetTx", strs, subnet, NoTx, f,
             CreateAssetTxCall(strs, subnet, chain[subnet], kc, c, f))

ExportToPChainTx ==
    /\ Fresh
    /\ \E strs \in KeyLists, subnet \in 1..Len(chain), f \in OpFails,
          c \in Peeks(kc) :
        Done("ExportToPChainTx", strs, subnet, NoTx, f,
             ExportToPChainTxCall(strs, subnet, chain[subnet], kc, c, f))

ImportFromXChain ==
    /\ Fresh
    /\ \E strs \in KeyLists, subnet \in 1..Len(chain), f \in OpFails,
          c \in Peeks(kc) :
        Done("ImportFromXChain", strs, subnet, NoTx, f,
             ImportFromXChainCall(strs, subnet, chain[subnet], kc, c, f))

TransformSubnetTx ==
    /\ Fresh
    /\ \E strs \in KeyLists, subnet \in 1..Len(chain), f \in OpFails,
          c \in Peeks(kc) :
        Done("TransformSubnetTx", strs, subnet, NoTx, f,
             TransformSubnetTxCall(strs, subnet, chain[subnet], kc, c, f))

Deploy ==
    /\ Fresh
    /\ \E controlKeys \in ControlKeyLists, strs \in KeyLists,
          threshold \in 0..MaxThreshold, f \in FailPoints,
          l \in Lists(kc), c \in Peeks(kc) :
        Done("Deploy", strs, 0, NoTx, f,
             DeployCall(controlKeys, strs, threshold, Len(chain) + 1, kc,
                        SortAddrs(kc), l, c, f))

Commit ==
    /\ last = Idle
    /\ heldTx # NoTx
    /\ \E f \in OpFails :
        Done("Commit", <<>>, 0, heldTx, f, CommitCall(heldTx, f))

Sign ==
    /\ last = Idle
    /\ heldTx # NoTx
    /\ \E strs \in KeyLists, f \in OpFails,
          part \in SUBSET ((heldTx.auth \cap kc) \ heldTx.sigs) :
        /\ part = {} \/ part # (heldTx.auth \cap kc) \ heldTx.sigs
        /\ Done("Sign", strs, heldTx.subnet, heldTx, f,
                SignCall(heldTx, strs, kc, SortAddrs(kc), f, part))

Next ==
    \/ NewPublicDeployer
    \/ AddValidator
    \/ RemoveValidator
    \/ CreateAssetTx
    \/ ExportToPChainTx
    \/ ImportFromXChain
    \/ TransformSubnetTx
    \/ Deploy
    \/ Commit
    \/ Sign

Spec == Init /\ [][Next]_vars

\* ------------------------------------------------------------------------
\* validateSubnet: the fan-out that fetches the subnet sync status of
\* every host, and the loop that collects the results
\* ------------------------------------------------------------------------
\* the largest cluster
MaxHosts == 3

\* the inventory lists each host once, under its own NodeID
Inventories == {[i \in 1..n |-> i] : n \in 0..MaxHosts}

Syncing == "Syncing"
Validating == "Validating"
ErrSSH == "ssh failed"

\* getNodeSubnetSyncStatus(blockchainID, host): the status the node
\* reports, or "" and the error of the SSH call or of the parse
SyncResults ==
    {[Value |-> v, Err |-> Nil] : v \in {Syncing, Validating, "Unknown"}}
        \cup {[Value |-> "", Err |-> ErrSSH]}

\* models.NodeStringResult{NodeID, Value, Err}
NodeStringResult(nodeID, r) ==
    [NodeID |-> nodeID, Value |-> r.Value, Err |-> r.Err]

\* m[k] = v
MapSet(m, k, v) ==
    [x \in DOMAIN m \cup {k} |-> IF x = k THEN v ELSE m[x]]

\* a channel without buffer
Unbuffered(h) == 0

\* make(chan models.NodeStringResult, len(hosts)): the size of the buffer
Capacity(h) == Len(h)

\* the errors of the command
ErrSetup == "setup failed"
ErrNodeID == "node id failed"
ErrParseNodeID == "node id malformed"
ErrAlreadyValidator == "node is already a subnet validator"
ErrNotSynced == "node is not synced to subnet yet, please try again later"
ErrPrimary == "primary network validator failed"
ErrCheck == "validator check failed"
ErrAddValidator == "add validator failed"
ErrFailedNodes == "node(s) failed to validate subnet"
IndexOutOfRange == "index out of range"

\* what the per-host loop did for a host
\*   primary    the answer of addNodeAsPrimaryNetworkValidator: "none" (not
\*              called), "added", "already" (false, nil) or "err"
\*   waited     waitForNodeToBePrimaryNetworkValidator was called
\*   observed   a check of the wait reported the node as a validator
\*   subnetAdd  the answer of addNodeAsSubnetValidator: "none", "ok" or "err"
HostLog(primary, waited, observed, subnetAdd) ==
    [primary |-> primary, waited |-> waited, observed |-> observed,
     subnetAdd |-> subnetAdd]

NoLog == HostLog("none", FALSE, FALSE, "none")

\* Wait returns without waiting for the counter
WaitGroupNeverBlocks(counter) == TRUE

\* parallelWaitGroup.Wait() returns when the counter is zero
WaitGroupReleased(counter) == counter = 0

\* the entry the drain loop writes for a result
Recorded(r) == IF r.Err # Nil THEN "" ELSE r.Value

\* the start of the command up to the fan-out: one of the checks or loads
\* fails and the command returns its error, or the inventory is read and
\* the channel made with room for one result per host
validateSubnetStart ==
    /\ mainPc = "start"
    /\ \E ok \in BOOLEAN, inv \in Inventories :
          IF ~ok
          THEN /\ mainPc' = "returned"
               /\ retErr' = ErrSetup
               /\ UNCHANGED <<hosts, taskPc, taskRes, hostLog>>
          ELSE /\ mainPc' = "spawn"
               /\ hosts' = inv
               /\ taskPc' = [i \in 1..Len(inv) |-> "new"]
               /\ taskRes' = [i \in 1..Len(inv) |-> [Value |-> "", Err |-> Nil]]
               /\ hostLog' = [i \in 1..Len(inv) |-> NoLog]
               /\ UNCHANGED retErr
    /\ UNCHANGED <<spawned, parallelWaitGroup, nodeResultChannel, closed,
                   NodeSubnetSyncStatus, readLog, panicked>>
    /\ UNCHANGED <<cur, failedNodes, nodeErrors, pollSeen, pollRet>>
    /\ UNCHANGED <<deployerVars, otherVars>>

\* for _, host := range hosts: Add(1) and start the host's goroutine
Spawn ==
    /\ mainPc = "spawn"
    /\ spawned < Len(hosts)
    /\ spawned' = spawned + 1
    /\ parallelWaitGroup' = parallelWaitGroup + 1
    /\ taskPc' = [taskPc EXCEPT ![spawned + 1] = "running"]
    /\ UNCHANGED <<hosts, mainPc, taskRes, nodeResultChannel, closed,
                   NodeSubnetSyncStatus, readLog, panicked>>
    /\ UNCHANGED loopVars
    /\ UNCHANGED <<deployerVars, otherVars>>

\* a task: getNodeSubnetSyncStatus returns
TaskStatus ==
    \E i \in 1..Len(hosts), r \in SyncResults :
        /\ taskPc[i] = "running"
        /\ taskRes' = [taskRes EXCEPT ![i] = r]
        /\ taskPc' = [taskPc EXCEPT ![i] = "send"]
        /\ UNCHANGED <<hosts, mainPc, spawned, parallelWaitGroup,
                       nodeResultChannel, closed, NodeSubnetSyncStatus,
                       readLog, panicked>>
        /\ UNCHANGED loopVars
        /\ UNCHANGED <<deployerVars, otherVars>>

\* a task: nodeResultChannel <- result; the send waits for room in the
\* buffer and panics on a closed channel
TaskSend ==
    \E i \in 1..Len(hosts) :
        /\ taskPc[i] = "send"
        /\ closed \/ Len(nodeResultChannel) < Capacity(hosts)
        /\ IF closed
           THEN /\ panicked' = TRUE
                /\ taskPc' = [taskPc EXCEPT ![i] = "panic"]
                /\ UNCHANGED nodeResultChannel
           ELSE /\ nodeResultChannel' =
                       Append(nodeResultChannel,
                              NodeStringResult(hosts[i], taskRes[i]))
                /\ taskPc' = [taskPc EXCEPT ![i] = "sent"]
                /\ UNCHANGED panicked
        /\ UNCHANGED <<hosts, mainPc, spawned, taskRes, parallelWaitGroup,
                       closed, NodeSubnetSyncStatus, readLog>>
        /\ UNCHANGED loopVars
        /\ UNCHANGED <<deployerVars, otherVars>>

\* a task: the deferred parallelWaitGroup.Done()
TaskDone ==
    \E i \in 1..Len(hosts) :
        /\ taskPc[i] = "sent"
        /\ parallelWaitGroup' = parallelWaitGroup - 1
        /\ taskPc' = [taskPc EXCEPT ![i] = "done"]
        /\ UNCHANGED <<hosts, mainPc, spawned, taskRes, nodeResultChannel,
                       closed, NodeSubnetSyncStatus, readLog, panicked>>
        /\ UNCHANGED loopVars
        /\ UNCHANGED <<deployerVars, otherVars>>

\* parallelWaitGroup.Wait(), after the loop has started every task
Wait ==
    /\ mainPc = "spawn"
    /\ spawned = Len(hosts)
    /\ WaitGroupReleased(parallelWaitGroup)
    /\ mainPc' = "close"
    /\ UNCHANGED <<hosts, spawned, taskPc, taskRes, parallelWaitGroup,
                   nodeResultChannel, closed, NodeSubnetSyncStatus, readLog,
                   panicked>>
    /\ UNCHANGED loopVars
    /\ UNCHANGED <<deployerVars, otherVars>>

\* close(nodeResultChannel)
Close ==
    /\ mainPc = "close"
    /\ closed' = TRUE
    /\ mainPc' = "drain"
    /\ UNCHANGED <<hosts, spawned, taskPc, taskRes, parallelWaitGroup,
                   nodeResultChannel, NodeSubnetSyncStatus, readLog, panicked>>
    /\ UNCHANGED loopVars
    /\ UNCHANGED <<deployerVars, otherVars>>

\* for result := range nodeResultChannel: one result received and entered
\* into the map
Drain ==
    /\ mainPc = "drain"
    /\ nodeResultChannel # <<>>
    /\ LET r == Head(nodeResultChannel)
       IN  /\ NodeSubnetSyncStatus' =
                  MapSet(NodeSubnetSyncStatus, r.NodeID, Recorded(r))
           /\ readLog' = MapSet(readLog, r.NodeID,
                               IF r.NodeID \in DOMAIN readLog
                               THEN readLog[r.NodeID] + 1 ELSE 1)
    /\ nodeResultChannel' = Tail(nodeResultChannel)
    /\ UNCHANGED <<hosts, mainPc, spawned, taskPc, taskRes,
                   parallelWaitGroup, closed, panicked>>
    /\ UNCHANGED loopVars
    /\ UNCHANGED <<deployerVars, otherVars>>

\* the range loop ends: the channel is closed and empty
DrainEnd ==
    /\ mainPc = "drain"
    /\ nodeResultChannel = <<>>
    /\ closed
    /\ mainPc' = "aggregated"
    /\ UNCHANGED <<hosts, spawned, taskPc, taskRes, parallelWaitGroup,
                   nodeResultChannel, closed, NodeSubnetSyncStatus, readLog,
                   panicked>>
    /\ UNCHANGED loopVars
    /\ UNCHANGED <<deployerVars, otherVars>>

\* the map is read at the key of its first entry, whatever the host
LookupFirst(m, k) == IF m = <<>> THEN "" ELSE m[CHOOSE x \in DOMAIN m : TRUE]

\* NodeSubnetSyncStatus[host.NodeID]: "" for a NodeID the map does not hold
Lookup(m, k) == IF k \in DOMAIN m THEN m[k] ELSE ""

\* a host that is not Syncing goes on to the validator transactions
StatusVerdictLetsAllThrough(subnetSyncStatus) ==
    [fail |-> FALSE, err |-> Nil]

\* the two tests of the subnet sync status: "" fails the host with the
\* err left by ids.NodeIDFromString, which is nil; anything but Syncing
\* fails it with one of two messages
StatusVerdict(subnetSyncStatus) ==
    IF subnetSyncStatus = "" THEN [fail |-> TRUE, err |-> Nil]
    ELSE IF subnetSyncStatus # Syncing
    THEN [fail |-> TRUE,
          err |-> IF subnetSyncStatus = Validating
                  THEN ErrAlreadyValidator ELSE ErrNotSynced]
    ELSE [fail |-> FALSE, err |-> Nil]

\* a nil error is not appended to nodeErrors
NextHostSkipsNilError(failed, err, log) ==
    /\ failedNodes' = IF failed THEN Append(failedNodes, hosts[cur])
                      ELSE failedNodes
    /\ nodeErrors' = IF failed /\ err # Nil THEN Append(nodeErrors, err)
                     ELSE nodeErrors
    /\ hostLog' = [hostLog EXCEPT ![cur] = log]
    /\ cur' = cur + 1
    /\ mainPc' = "aggregated"
    /\ pollSeen' = <<>>
    /\ pollRet' = Nil

\* the loop body ends for the current host: with err the host is appended
\* to failedNodes and its error to nodeErrors, and the loop goes on with
\* the next host
\*   failed   the host has failed
NextHost(failed, err, log) ==
    /\ failedNodes' = IF failed THEN Append(failedNodes, hosts[cur])
                      ELSE failedNodes
    /\ nodeErrors' = IF failed THEN Append(nodeErrors, err) ELSE nodeErrors
    /\ hostLog' = [hostLog EXCEPT ![cur] = log]
    /\ cur' = cur + 1
    /\ mainPc' = "aggregated"
    /\ pollSeen' = <<>>
    /\ pollRet' = Nil

\* for i, host := range hosts: the body from getClusterNodeID to
\* addNodeAsPrimaryNetworkValidator
\*   idErr, parseErr   getClusterNodeID, ids.NodeIDFromString fail
\*   primary           the answer of addNodeAsPrimaryNetworkValidator
HostIteration ==
    /\ mainPc = "aggregated"
    /\ cur <= Len(hosts)
    /\ \E idErr \in BOOLEAN, parseErr \in BOOLEAN,
          primary \in {"added", "already", "err"} :
          LET subnetSyncStatus == Lookup(NodeSubnetSyncStatus, hosts[cur])
          IN  IF idErr THEN NextHost(TRUE, ErrNodeID, NoLog)
              ELSE IF parseErr THEN NextHost(TRUE, ErrParseNodeID, NoLog)
              ELSE IF StatusVerdict(subnetSyncStatus).fail
              THEN NextHost(TRUE, StatusVerdict(subnetSyncStatus).err, NoLog)
              ELSE IF primary = "err"
              THEN NextHost(TRUE, ErrPrimary,
                            HostLog("err", FALSE, FALSE, "none"))
              ELSE /\ mainPc' = IF primary = "added" THEN "waitPrimary"
                                ELSE "addSubnet"
                   /\ hostLog' = [hostLog EXCEPT ![cur] =
                                     HostLog(primary, primary = "added",
                                             FALSE, "none")]
                   /\ pollSeen' = <<>>
                   /\ pollRet' = Nil
                   /\ UNCHANGED <<cur, failedNodes, nodeErrors>>
    /\ UNCHANGED <<hosts, fanOutVars, retErr>>
    /\ UNCHANGED <<deployerVars, otherVars>>

\* for i := 0; i < 5; i++
PollLimit == 5

\* what checkNodeIsPrimaryNetworkValidator answers: the node is a
\* validator, is not, or the check fails
CheckAnswers == {"validator", "not", "err"}

\* the loop does not stop at a check that finds the node validating
PollStepNoBreak(a, made) ==
    IF a = "err" THEN ErrCheck
    ELSE IF made = PollLimit THEN Nil
    ELSE "again"

\* the body of the polling loop after check number made has answered a:
\* what the wait returns, or "again" for one more turn
PollStep(a, made) ==
    IF a = "err" THEN ErrCheck
    ELSE IF a = "validator" \/ made = PollLimit THEN Nil
    ELSE "again"

\* waitForNodeToBePrimaryNetworkValidator: one turn of the polling loop;
\* the wait returns the error of a failed check, returns nil at the first
\* check that finds the node validating and after the last turn
PollCheck ==
    /\ mainPc = "waitPrimary"
    /\ Len(pollSeen) < PollLimit
    /\ \E a \in CheckAnswers :
          /\ pollSeen' = Append(pollSeen, a)
          /\ IF PollStep(a, Len(pollSeen) + 1) = "again"
             THEN UNCHANGED <<mainPc, pollRet>>
             ELSE /\ pollRet' = PollStep(a, Len(pollSeen) + 1)
                  /\ mainPc' = "waitReturned"
    /\ UNCHANGED <<hosts, fanOutVars, cur, failedNodes, nodeErrors, hostLog,
                   retErr>>
    /\ UNCHANGED <<deployerVars, otherVars>>

\* the node was seen validating by the last check of the wait
ObservedValidating(seen) ==
    seen # <<>> /\ seen[Len(seen)] = "validator"

\* the loop body after the wait has returned: an error fails the host,
\* nil leads on to addNodeAsSubnetValidator
AfterWait ==
    /\ mainPc = "waitReturned"
    /\ IF pollRet # Nil
       THEN NextHost(TRUE, pollRet, HostLog("added", TRUE, FALSE, "none"))
       ELSE /\ mainPc' = "addSubnet"
            /\ hostLog' = [hostLog EXCEPT ![cur] =
                              HostLog("added", TRUE,
                                      ObservedValidating(pollSeen), "none")]
            /\ pollSeen' = <<>>
            /\ pollRet' = Nil
            /\ UNCHANGED <<cur, failedNodes, nodeErrors>>
    /\ UNCHANGED <<hosts, fanOutVars, retErr>>
    /\ UNCHANGED <<deployerVars, otherVars>>

\* addNodeAsSubnetValidator(nodeIDStr, subnetName, ...): the last call of
\* the loop body
AddSubnet ==
    /\ mainPc = "addSubnet"
    /\ \E ok \in BOOLEAN :
          NextHost(~ok, ErrAddValidator,
                   [hostLog[cur] EXCEPT
                       !.subnetAdd = IF ok THEN "ok" ELSE "err"])
    /\ UNCHANGED <<hosts, fanOutVars, retErr>>
    /\ UNCHANGED <<deployerVars, otherVars>>

\* after the loop: with failed nodes the report loop prints
\* nodeErrors[i] for every entry of failedNodes and the command returns an
\* error, without any it returns nil
Report ==
    /\ mainPc = "aggregated"
    /\ cur > Len(hosts)
    /\ retErr' = IF Len(failedNodes) = 0 THEN Nil
                 ELSE IF Len(nodeErrors) < Len(failedNodes)
                 THEN IndexOutOfRange
                 ELSE ErrFailedNodes
    /\ mainPc' = "returned"
    /\ UNCHANGED <<hosts, fanOutVars, cur, failedNodes, nodeErrors, hostLog,
                   pollSeen, pollRet>>
    /\ UNCHANGED <<deployerVars, otherVars>>

ValidateInit ==
    /\ kc = {}
    /\ heldTx = NoTx
    /\ last = Idle
    /\ ValidateIdle
    /\ ChainIDIdle
    /\ GcpIdle

ValidateNext ==
    \/ validateSubnetStart
    \/ Spawn
    \/ TaskStatus
    \/ TaskSend
    \/ TaskDone
    \/ Wait
    \/ Close
    \/ Drain
    \/ DrainEnd
    \/ HostIteration
    \/ PollCheck
    \/ AfterWait
    \/ AddSubnet
    \/ Report

ValidateSpec == ValidateInit /\ [][ValidateNext]_vars

\* ------------------------------------------------------------------------
\* getChainID (pkg/vm): the prompt for the chain ID of a new subnet-evm
\* ------------------------------------------------------------------------
\* the chain IDs the user enters are 1..MaxChainID
MaxChainID == 3

\* the user answers the prompt at most MaxPrompts times
MaxPrompts == 3

\* what prompts.CapturePositiveBigInt hands back: a positive integer
ChainIDs == 1..MaxChainID

\* chainID.String(): the integer in decimal
BigIntString(chainID) == ToString(chainID)

ErrPrompt == "prompt failed"
ErrLookup == "chain ID lookup failed"

\* app.ChainIDExists(chainID.String()): the string is the chain ID of a
\* subnet the app knows
ChainIDExists(known, str) == str \in known

\* an existing chain ID is accepted like a new one
AfterLookupAcceptsAny(exists) == "return"

\* after the lookup: an existing chain ID starts getChainID again, a new
\* one is returned
AfterLookup(exists) == IF exists THEN "again" ELSE "return"

\* prompts.CapturePositiveBigInt("ChainId"): the user enters a chain ID,
\* or the prompt fails and getChainID returns its error
CapturePositiveBigInt ==
    /\ chainPc = "prompt"
    /\ Len(entered) < MaxPrompts
    /\ \E ok \in BOOLEAN, chainID \in ChainIDs :
          IF ok
          THEN /\ entered' = Append(entered, chainID)
               /\ chainPc' = "lookup"
               /\ UNCHANGED chainRet
          ELSE /\ chainRet' = [chainID |-> NoChainID, err |-> ErrPrompt]
               /\ chainPc' = "returned"
               /\ UNCHANGED entered
    /\ UNCHANGED <<knownChainIDs, reported>>
    /\ UNCHANGED <<deployerVars, validateVars, gcpVars>>

\* app.ChainIDExists and what follows it: the error of a failed lookup is
\* returned, an existing chain ID leads back to the prompt, a new one is
\* returned
\*   ok   the lookup works
LookupChainID ==
    /\ chainPc = "lookup"
    /\ \E ok \in BOOLEAN :
          LET chainID == entered[Len(entered)]
              exists == ChainIDExists(knownChainIDs, BigIntString(chainID))
          IN  IF ~ok
              THEN /\ reported' = Append(reported, "err")
                   /\ chainRet' = [chainID |-> NoChainID, err |-> ErrLookup]
                   /\ chainPc' = "returned"
              ELSE /\ reported' = Append(reported, IF exists THEN "exists"
                                                   ELSE "new")
                   /\ IF AfterLookup(exists) = "again"
                      THEN /\ chainPc' = "prompt"
                           /\ UNCHANGED chainRet
                      ELSE /\ chainRet' = [chainID |-> chainID, err |-> Nil]
                           /\ chainPc' = "returned"
    /\ UNCHANGED <<knownChainIDs, entered>>
    /\ UNCHANGED <<deployerVars, validateVars, gcpVars>>

\* no deployer call has been made
DeployerIdle ==
    /\ kc = {}
    /\ heldTx = NoTx
    /\ last = Idle

\* getChainID is called; the app knows any set of chain IDs
ChainIDInit ==
    /\ knownChainIDs \in SUBSET {BigIntString(chainID) : chainID \in ChainIDs}
    /\ chainPc = "prompt"
    /\ entered = <<>>
    /\ reported = <<>>
    /\ chainRet = [chainID |-> NoChainID, err |-> Nil]
    /\ DeployerIdle
    /\ ValidateIdle
    /\ GcpIdle

ChainIDNext ==
    \/ CapturePositiveBigInt
    \/ LookupChainID

ChainIDSpec == ChainIDInit /\ [][ChainIDNext]_vars

\* ------------------------------------------------------------------------
\* GcpCloud.waitForOperation: polling a Google Cloud operation
\* ------------------------------------------------------------------------
\* the timeouts of the calls, in seconds, are 0..MaxTimeout
MaxTimeout == 3

\* what GlobalOperations.Get(...).Do() answers: the request fails, or the
\* operation is pending, running, done, or done with an error
StatusAnswers == {"err", "PENDING", "RUNNING", "DONE", "DONE_ERROR"}

\* the seconds a status request can take
GetSeconds == 0..1

ErrGetStatus == "error getting operation status"
ErrOperationFailed == "operation failed"
ErrTimeout == "operation did not complete within the specified timeout"
ErrCanceled == "operation canceled"

\* an operation that is done with an error counts as completed
OperationStepIgnoresError(answer, clock, limit) ==
    IF answer = "err" THEN ErrGetStatus
    ELSE IF answer \in {"DONE", "DONE_ERROR"} THEN Nil
    ELSE IF clock > limit THEN ErrTimeout
    ELSE "select"

\* the loop body up to the select: what waitForOperation returns, or
\* "select" when it goes on to wait
\*   clock   time.Now() after the request
\*   limit   deadline; time.Now().After(deadline) is strict
OperationStep(answer, clock, limit) ==
    IF answer = "err" THEN ErrGetStatus
    ELSE IF answer = "DONE_ERROR" THEN ErrOperationFailed
    ELSE IF answer = "DONE" THEN Nil
    ELSE IF clock > limit THEN ErrTimeout
    ELSE "select"

\* one status request and the tests that follow it
GetOperation ==
    /\ gcpPc = "get"
    /\ \E answer \in StatusAnswers, took \in GetSeconds :
          /\ now' = now + took
          /\ getCalls' = getCalls + 1
          /\ lastStatus' = answer
          /\ IF OperationStep(answer, now + took, deadline) = "select"
             THEN /\ gcpPc' = "select"
                  /\ UNCHANGED gcpRet
             ELSE /\ gcpPc' = "returned"
                  /\ gcpRet' = OperationStep(answer, now + took, deadline)
    /\ UNCHANGED <<deadline, ctxDone>>
    /\ UNCHANGED <<deployerVars, validateVars, chainIDVars>>

\* select: a context that is done ends the call; otherwise the timer of
\* one second fires and the loop goes round, also when the context is
\* cancelled at the moment the timer fires and select picks the timer
\*   raced   the cancellation came with the timer
Select ==
    /\ gcpPc = "select"
    /\ IF ctxDone
       THEN /\ gcpRet' = ErrCanceled
            /\ gcpPc' = "returned"
            /\ UNCHANGED <<now, ctxDone>>
       ELSE \E raced \in BOOLEAN :
               /\ now' = now + 1
               /\ ctxDone' = raced
               /\ gcpPc' = "get"
               /\ UNCHANGED gcpRet
    /\ UNCHANGED <<deadline, getCalls, lastStatus>>
    /\ UNCHANGED <<deployerVars, validateVars, chainIDVars>>

\* the owner of c.ctx cancels it while the call is under way
Cancel ==
    /\ gcpPc \in {"get", "select"}
    /\ ~ctxDone
    /\ ctxDone' = TRUE
    /\ UNCHANGED <<now, deadline, gcpPc, getCalls, lastStatus, gcpRet>>
    /\ UNCHANGED <<deployerVars, validateVars, chainIDVars>>

\* waitForOperation(operation, timeout) is called, with a context that may
\* be cancelled already
GcpInit ==
    /\ now = 0
    /\ deadline \in 0..MaxTimeout
    /\ ctxDone \in BOOLEAN
    /\ gcpPc = "get"
    /\ getCalls = 0
    /\ lastStatus = "none"
    /\ gcpRet = Nil
    /\ DeployerIdle
    /\ ValidateIdle
    /\ ChainIDIdle

GcpNext ==
    \/ GetOperation
    \/ Select
    \/ Cancel

GcpSpec == GcpInit /\ [][GcpNext]_vars

\* the goroutine that runs waitForOperation is scheduled, its requests are
\* answered and its timer fires
GcpFairSpec ==
    GcpSpec /\ WF_vars(GetOperation) /\ WF_vars(Select)

\* ------------------------------------------------------------------------
\* Properties
\* ------------------------------------------------------------------------
\* the addresses the key strings name
Named(strs) == {strs[i][2] : i \in {j \in 1..Len(strs) : Len(strs[j]) = 2}}

\* the keychain controls none of the addresses the list names
ControlsNone(strs) == Named(strs) \cap kc = {}

Reached(stage) == stage \in Range(last.trace)

CheckedOps == {"AddValidator", "RemoveValidator", "Deploy", "Sign"}

UncheckedOps ==
    {"CreateAssetTx", "ExportToPChainTx", "ImportFromXChain",
     "TransformSubnetTx"}

\* the kind of the transaction an entry point is about
ActionKind(op) ==
    CASE op = "AddValidator" -> "AddSubnetValidator"
      [] op = "RemoveValidator" -> "RemoveSubnetValidator"
      [] op = "Deploy" -> "CreateChain"
      [] op = "CreateAssetTx" -> "CreateAsset"
      [] op = "ExportToPChainTx" -> "Export"
      [] op = "ImportFromXChain" -> "Import"
      [] op = "TransformSubnetTx" -> "TransformSubnet"
      [] OTHER -> "nil"

Submitted(kind) ==
    \E i \in 1..Len(last.submitted) : last.submitted[i].kind = kind

\* C1: a transaction that needs the signatures of two or more signers is
\* sent to the node only with all of them attached, and Commit of a
\* transaction with fewer sends nothing and returns an error.
C1_SubmitsOnlyWithThreshold ==
    /\ \A i \in 1..Len(last.submitted) :
          Cardinality(last.submitted[i].auth) >= 2
              => FullySigned(last.submitted[i])
    /\ (last.op = "Commit" /\ ~FullySigned(last.arg))
          => (last.submitted = <<>> /\ last.err # Nil)

\* C2: AddValidator, RemoveValidator, Deploy and Sign with a keychain that
\* controls none of the listed signers (the list may be empty) end in an
\* error having built, signed and issued nothing, Sign leaving the
\* transaction as it was; the error is ErrNoSubnetAuthKeysInWallet once the
\* wallet has loaded and the key strings have parsed, that is, whenever the
\* call gets to the signer check.
C2_NoSignerNoTransaction ==
    (last.op \in CheckedOps /\ ControlsNone(last.strs))
        => /\ last.err # Nil
           /\ Reached("check") => last.err = ErrNoSubnetAuthKeysInWallet
           /\ (last.fail # "wallet" /\ last.fail # "vmid"
               /\ ParseOk(last.strs)) => Reached("check")
           /\ last.built = <<>>
           /\ last.submitted = <<>>
           /\ ~Reached("build") /\ ~Reached("sign") /\ ~Reached("issue")
           /\ last.tx = last.arg

\* Scenario C: signers {X, Y}, the wallet controls neither
C2_Witness ==
    /\ last.op = "Sign"
    /\ last.strs = <<AddrStr("X"), AddrStr("Y")>>
    /\ kc = {"Z"}
    /\ last.arg # NoTx
    /\ last.err = ErrNoSubnetAuthKeysInWallet

\* C3: TransformSubnetTx, CreateAssetTx, ExportToPChainTx and
\* ImportFromXChain with a wallet that controls none of the listed signers
\* fail with ErrNoSubnetAuthKeysInWallet (once the wallet has loaded) and
\* neither build nor issue a transaction.
C3_UncheckedOpsRefuse ==
    (last.op \in UncheckedOps /\ ControlsNone(last.strs))
        => /\ last.fail # "wallet" => last.err = ErrNoSubnetAuthKeysInWallet
           /\ last.built = <<>>
           /\ last.submitted = <<>>

\* C4: AddValidator, RemoveValidator and Deploy that get past the signer
\* check take the multisig path exactly when the list has two or more keys,
\* whatever part of it the wallet controls: with two or more keys a call
\* that succeeds returns isFullySigned = false with the transaction, and
\* the action's transaction is never sent to the node; with one key a call
\* that succeeds returns isFullySigned = true and no transaction.
C4_MultisigIffTwoOrMore ==
    (last.op \in {"AddValidator", "RemoveValidator", "Deploy"}
     /\ ParseOk(last.strs) /\ ~ControlsNone(last.strs))
        => /\ Len(last.strs) >= 2 =>
                /\ last.path \in {"multisig", "none"}
                /\ ~last.full
                /\ ~Submitted(ActionKind(last.op))
                /\ last.err = Nil =>
                      (last.path = "multisig" /\ last.tx # NoTx
                       /\ last.tx.kind = ActionKind(last.op))
           /\ Len(last.strs) = 1 =>
                /\ last.path \in {"direct", "none"}
                /\ last.tx = NoTx
                /\ last.err = Nil =>
                      (last.path = "direct" /\ last.full
                       /\ Submitted(ActionKind(last.op)))

\* the wallet controls every listed signer and still gets a partial
\* transaction back, although its signatures complete it
C4_Witness ==
    /\ last.op = "AddValidator"
    /\ last.strs = <<AddrStr("X"), AddrStr("Y")>>
    /\ {"X", "Y"} \subseteq kc
    /\ last.err = Nil
    /\ ~last.full
    /\ FullySigned(last.tx)
    /\ Cardinality(last.tx.auth) = 2

\* C5: with a list of exactly one key that the wallet controls, none of the
\* seven entry points returns a transaction to co-sign or ends with
\* isFullySigned = false and a nil error.
C5_SingleKeyDirect ==
    (last.op \in UncheckedOps \cup {"AddValidator", "RemoveValidator", "Deploy"}
     /\ Len(last.strs) = 1 /\ ParseOk(last.strs)
     /\ Named(last.strs) \subseteq kc)
        => /\ last.tx = NoTx
           /\ last.path # "multisig"
           /\ ~(~last.full /\ last.err = Nil)

C5_Witness ==
    /\ last.op = "TransformSubnetTx"
    /\ last.strs = <<AddrStr("X")>>
    /\ "X" \in kc
    /\ last.full
    /\ last.err = Nil
    /\ Submitted("TransformSubnet")

\* the direct path of AddValidator: one key, the wallet controls it
DirectAddValidator ==
    /\ last.op = "AddValidator"
    /\ Len(last.strs) = 1 /\ ParseOk(last.strs)
    /\ Named(last.strs) \subseteq kc

C7_ScenarioB ==
    (/\ last.op = "RemoveValidator"
     /\ Len(last.strs) = 2 /\ ParseOk(last.strs)
     /\ chain[last.subnet] = [addrs |-> Named(last.strs), threshold |-> 2]
     /\ Cardinality(Named(last.strs) \cap kc) = 1)
        => /\ last.submitted = <<>>
           /\ last.fail = "none" =>
                /\ last.err = Nil
                /\ ~last.full
                /\ last.tx.kind = "RemoveSubnetValidator"
                /\ last.tx.auth = Named(last.strs)
                /\ last.tx.sigs = Named(last.strs) \cap kc
                /\ Cardinality(last.tx.sigs) = 1
                /\ last.tx.change.threshold = 1
                /\ Len(last.tx.change.addrs) = 1
                /\ last.tx.change.addrs[1] \in last.tx.sigs

\* Scenario B
C7_Witness ==
    /\ last.op = "RemoveValidator"
    /\ last.strs = <<AddrStr("X"), AddrStr("Y")>>
    /\ last.subnet = 2
    /\ kc = {"X"}
    /\ last.err = Nil
    /\ last.tx.sigs = {"X"}
    /\ last.tx.change.addrs = <<"X">>
    /\ last.submitted = <<>>

MultisigOps == {"AddValidator", "RemoveValidator", "Deploy"}

\* C8 as stated: AddValidator, RemoveValidator and Deploy with two or more
\* listed signers send nothing to the node and end with the transaction to
\* co-sign or with an error.
C8_MultisigNeverSubmits ==
    (last.op \in MultisigOps /\ Len(last.strs) >= 2)
        => /\ last.submitted = <<>>
           /\ last.err # Nil \/ (~last.full /\ last.tx # NoTx)

\* C8 amended: AddValidator and RemoveValidator with two or more listed
\* signers send nothing to the node; Deploy with two or more sends the
\* CreateSubnet transaction, once, and nothing else, in particular never
\* the blockchain transaction; each ends with the transaction to co-sign or
\* with an error.
C8_MultisigSubmitsOnlyCreateSubnet ==
    (last.op \in MultisigOps /\ Len(last.strs) >= 2)
        => /\ last.op # "Deploy" => last.submitted = <<>>
           /\ last.op = "Deploy" =>
                /\ Len(last.submitted) <= 1
                /\ \A i \in 1..Len(last.submitted) :
                      last.submitted[i].kind = "CreateSubnet"
                /\ last.path = "multisig" => Len(last.submitted) = 1
           /\ last.err # Nil \/ (~last.full /\ last.tx # NoTx)

\* Deploy with two keys: the subnet is created, the blockchain transaction
\* comes back partially signed
C8_Witness ==
    /\ last.op = "Deploy"
    /\ Len(last.strs) = 2
    /\ last.err = Nil
    /\ ~last.full
    /\ last.tx.kind = "CreateChain"
    /\ ~FullySigned(last.tx)
    /\ Len(last.accepted) = 1
    /\ last.accepted[1].kind = "CreateSubnet"

\* C9: on the multisig path the change owner of every transaction the
\* multisig builders build has threshold 1 and exactly one address, which
\* is in the keychain and among the listed signers.
C9_ChangeToLocalSigner ==
    (last.op \in MultisigOps /\ last.path = "multisig")
        => \A i \in 1..Len(last.built) :
              last.built[i].kind = ActionKind(last.op)
                  => /\ last.built[i].change.threshold = 1
                     /\ Len(last.built[i].change.addrs) = 1
                     /\ last.built[i].change.addrs[1] \in kc
                     /\ last.built[i].change.addrs[1] \in Named(last.strs)

\* the first listed signer is not the wallet's, the change still goes to
\* the wallet
C9_Witness ==
    /\ last.op = "Deploy"
    /\ last.path = "multisig"
    /\ last.tx # NoTx
    /\ Len(last.strs) = 2
    /\ last.strs[1][2] \notin kc
    /\ last.tx.change.addrs = <<last.strs[2][2]>>
    /\ Cardinality(kc) = 2

\* the first address of the list that the keychain holds
FirstControlled(strs) ==
    LET keys == ParseToIDs(strs)
        i == CHOOSE j \in 1..Len(keys) :
                 keys[j] \in kc /\ \A k \in 1..(j - 1) : keys[k] \notin kc
    IN  keys[i]

\* C10: the change owner chosen on the multisig path is the first address
\* of the required signer list that the wallet controls (the intersection
\* is taken in the order of the list, not of the wallet).
C10_ChangeFirstInListOrder ==
    (last.op \in MultisigOps /\ last.path = "multisig" /\ last.tx # NoTx)
        => last.tx.change.addrs = <<FirstControlled(last.strs)>>

\* the seven entry points that carry out a governance action
ActionOps == UncheckedOps \cup MultisigOps

\* C11: each of the seven entry points, called with two or more listed
\* signers, that returns a nil error returns a transaction of its action's
\* kind that carries a signature of the local wallet.
C11_MultisigReturnsSignedTx ==
    (last.op \in ActionOps /\ Len(last.strs) >= 2 /\ last.err = Nil)
        => /\ last.tx # NoTx
           /\ last.tx.kind = ActionKind(last.op)
           /\ last.tx.sigs \cap kc # {}

\* a transaction governed by two signers
TwoSigners(tx) == tx # NoTx /\ Cardinality(tx.auth) = 2

\* the second signer's Sign of Scenario D: the transaction carries one of
\* its two signatures, the list names its two signers, the keychain holds
\* the key of the missing one and not the other
SecondSignerSigns ==
    /\ last.op = "Sign"
    /\ TwoSigners(last.arg)
    /\ Cardinality(last.arg.sigs) = 1
    /\ ParseOk(last.strs) /\ Named(last.strs) = last.arg.auth
    /\ kc \cap last.arg.auth = last.arg.auth \ last.arg.sigs

\* C12: handed the transaction the first of two signers produced, the
\* party that controls the second runs Sign, which, when no collaborator
\* fails, adds the second signature to the same transaction; Commit of the
\* transaction with both signatures then, when no collaborator fails,
\* sends exactly that transaction to the node and returns its ID; neither
\* Sign nor Commit makes a builder request or sends any other transaction.
C12_ScenarioD ==
    /\ last.op \in {"Sign", "Commit"}
          => (last.built = <<>> /\ ~Reached("build"))
    /\ last.op = "Sign" => last.submitted = <<>>
    /\ (SecondSignerSigns /\ last.fail = "none")
          => /\ last.err = Nil
             /\ Body(last.tx) = Body(last.arg)
             /\ last.tx.sigs = last.arg.auth
             /\ heldTx = last.tx
    /\ (last.op = "Commit" /\ TwoSigners(last.arg) /\ FullySigned(last.arg)
        /\ last.fail = "none")
          => /\ last.err = Nil
             /\ last.submitted = <<last.arg>>
             /\ last.accepted = <<last.arg>>
             /\ last.id = TxID(last.arg) /\ last.id # Empty

\* the party that controls only Y has signed the transaction that came
\* with the signature of X and holds it with both, ready for Commit
C12_Witness ==
    /\ SecondSignerSigns
    /\ kc = {"Y"}
    /\ last.arg.kind = "RemoveSubnetValidator"
    /\ last.arg.sigs = {"X"}
    /\ last.err = Nil
    /\ last.tx.sigs = {"X", "Y"}
    /\ heldTx = last.tx

\* C13: a call of Sign, whether it succeeds or fails, leaves the unsigned
\* body of the transaction as it was given; the signatures it carried are
\* all still attached, and a call that fails before the signer runs leaves
\* the signatures as they were too.
C13_SignKeepsBody ==
    last.op = "Sign"
        => /\ Body(last.tx) = Body(last.arg)
           /\ last.arg.sigs \subseteq last.tx.sigs
           /\ last.tx.sigs \subseteq last.arg.auth
           /\ ~Reached("sign") => last.tx = last.arg
           /\ Body(heldTx) = Body(last.arg)

\* the signer of the second party fails: the transaction still has the
\* body and the signature the first signer gave it
C13_Witness ==
    /\ last.op = "Sign"
    /\ last.err = ErrSign
    /\ last.arg.auth = {"X", "Y"}
    /\ last.arg.sigs = {"X"}
    /\ kc = {"Y"}
    /\ last.tx = last.arg
    /\ last.tx.change.addrs = <<"X">>

\* the stages that make a request to the network: the wallet load fetches
\* the UTXOs from the API, the builder reads the chain state the wallet
\* loaded, the issue sends the transaction to the node
NetworkStages == {"loadWallet", "build", "issue"}

\* C14: a call that ends with ErrNoSubnetAuthKeysInWallet has made no
\* network request: no wallet load, no build, no issue.
C14_CheckBeforeNetwork ==
    last.err = ErrNoSubnetAuthKeysInWallet
        => \A i \in 1..Len(last.trace) : last.trace[i] \notin NetworkStages

\* the unsigned transactions of the call's own action that the builder
\* produced
ActionBuilt ==
    SelectSeq(last.built, LAMBDA t : t.kind = ActionKind(last.op))

\* the subnet the call's action is about and its owner: the named subnet,
\* or the one Deploy has just created
ActionSubnet == IF last.op = "Deploy" THEN Len(chain) + 1 ELSE last.subnet

ActionOwner ==
    IF last.op = "Deploy" THEN last.built[1].owner ELSE chain[last.subnet]

\* C15: on the multisig path, every invocation with the parameters, the
\* signer list, the keychain and the chain state of the call that was made
\* builds the unsigned transaction that call built, change owner included,
\* whatever the order in which the keychain lists its addresses.
C15_BuilderDeterministic ==
    (last.op \in MultisigOps /\ last.path = "multisig" /\ ActionBuilt # <<>>)
        => \A l \in Lists(kc) :
              createMultisigTx(ActionKind(last.op), ParseToIDs(last.strs),
                               ActionSubnet, ActionOwner, l, kc,
                               "none").built = ActionBuilt

\* C16: a call that takes the direct path sends for its action only
\* transactions that one signature authorizes, and Deploy takes the direct
\* path only when the subnet it has created has threshold 1 and the one
\* listed key among its control keys.
C16_DirectOnlyThresholdOne ==
    (last.op \in ActionOps /\ last.path = "direct")
        => /\ \A i \in 1..Len(last.submitted) :
                 last.submitted[i].kind = ActionKind(last.op)
                     => Cardinality(last.submitted[i].auth) <= 1
           /\ last.op = "Deploy" =>
                 /\ last.built[1].owner.threshold = 1
                 /\ Named(last.strs) \subseteq last.built[1].owner.addrs

\* C17: every CreateSubnet transaction Deploy sends to the node has an
\* owner whose threshold is at least 1 and at most the number of its
\* control keys.
C17_DeployThresholdInRange ==
    last.op = "Deploy"
        => \A i \in 1..Len(last.submitted) :
              last.submitted[i].kind = "CreateSubnet"
                  => /\ last.submitted[i].owner.threshold >= 1
                     /\ last.submitted[i].owner.threshold
                            <= Cardinality(last.submitted[i].owner.addrs)

\* the stages of a call of AddValidator, RemoveValidator or Deploy that
\* meets no error: signer resolution (wallet load, parse, check), for
\* Deploy the CreateSubnet transaction, then the action's transaction
\* built, signed and, with one listed key, issued
FullTrace(op, n) ==
    <<"loadWallet", "parse", "check">>
    \o (IF op = "Deploy" THEN <<"build", "sign", "issue">> ELSE <<>>)
    \o <<"build", "sign">>
    \o (IF n = 1 THEN <<"issue">> ELSE <<>>)

IsPrefix(s, t) == Len(s) <= Len(t) /\ s = SubSeq(t, 1, Len(s))

CountOf(s, x) == Cardinality({i \in 1..Len(s) : s[i] = x})

\* the errors a stage can end the call with (the VM ID is computed after
\* the wallet load, the control keys are parsed after the signer check)
StageErrors(stage) ==
    CASE stage = "loadWallet" -> {ErrWallet, ErrVMID}
      [] stage = "parse" -> {ErrParse}
      [] stage = "check" -> {ErrNoSubnetAuthKeysInWallet, ErrControlKeys}
      [] stage = "build" -> {ErrBuild}
      [] stage = "sign" -> {ErrSign}
      [] stage = "issue" -> {ErrIssue}
      [] OTHER -> {}

\* C18: the stages of a call of AddValidator, RemoveValidator or Deploy are
\* a beginning of the fixed sequence resolve, build, sign, submit: nothing
\* is built before the signer check has passed, the signer runs only on a
\* transaction the builder has returned, only signed transactions that the
\* call built are sent; a call that returns no error has run the whole
\* sequence and a call that returns an error returns the error of the last
\* stage it ran.
C18_StagesInOrder ==
    last.op \in MultisigOps
        => /\ last.trace # <<>>
           /\ IsPrefix(last.trace, FullTrace(last.op, Len(last.strs)))
           /\ CountOf(last.trace, "sign") <= Len(last.built)
           /\ CountOf(last.trace, "issue") = Len(last.submitted)
           /\ \A i \in 1..Len(last.submitted) :
                 \E j \in 1..Len(last.built) :
                     /\ Body(last.built[j]) = Body(last.submitted[i])
                     /\ last.built[j].sigs = {}
           /\ last.err = Nil
                 => last.trace = FullTrace(last.op, Len(last.strs))
           /\ last.err # Nil
                 => last.err \in StageErrors(last.trace[Len(last.trace)])

\* the build of the multisig path fails: the call ends there
C18_Witness ==
    /\ last.op = "AddValidator"
    /\ Len(last.strs) = 2
    /\ last.err = ErrBuild
    /\ last.trace = <<"loadWallet", "parse", "check", "build">>
    /\ last.built = <<>>
    /\ last.tx = NoTx

\* the signer failed on the transaction of the call's action: in
\* createAddSubnetValidatorTx, createRemoveValidatorTX or createBlockchainTx
\* on the multisig path, or in Sign
SignerFailed ==
    /\ last.fail = "sign"
    /\ \/ /\ last.op \in MultisigOps
          /\ last.path = "multisig"
          /\ ActionBuilt # <<>>
       \/ /\ last.op = "Sign"
          /\ Reached("sign")

\* C19: when the signer fails in createAddSubnetValidatorTx,
\* createRemoveValidatorTX or createBlockchainTx on the multisig path, or in
\* Sign, the call returns the signer's error as it is, returns no
\* transaction, no ID and isFullySigned = false, and sends nothing to the
\* node from then on: the signer is the last stage of the call and the only
\* transaction a call of Deploy has sent is the CreateSubnet one it had
\* issued before it called createBlockchainTx.  The transaction given to
\* Sign stays with its holder, not fully signed by this call.
C19_SignFailureReturnsError ==
    SignerFailed
        => /\ last.err = ErrSign
           /\ ~last.full
           /\ last.id = Empty /\ last.subnetID = 0 /\ last.printed = Empty
           /\ last.op \in MultisigOps => (last.tx = NoTx /\ heldTx = NoTx)
           /\ last.op = "Sign" => (heldTx = last.tx /\ last.tx.kind # "nil")
           /\ last.trace[Len(last.trace)] = "sign"
           /\ ~Submitted(ActionKind(last.op))
           /\ last.op # "Deploy" => last.submitted = <<>>
           /\ last.op = "Deploy" =>
                 /\ Len(last.submitted) = 1
                 /\ last.submitted[1].kind = "CreateSubnet"

\* the wallet's signer fails on the transaction AddValidator has built
C19_Witness ==
    /\ last.op = "AddValidator"
    /\ SignerFailed
    /\ Len(last.built) = 1
    /\ last.err = ErrSign
    /\ last.tx = NoTx
    /\ last.submitted = <<>>

AllTasksDone == \A i \in 1..Len(hosts) : taskPc[i] = "done"

\* C20: in validateSubnet no result is received from the results channel,
\* and nothing entered into the map, before the task of every host has
\* finished; the command gets past Wait only when every task has run to
\* its end and sent its result, whatever the tasks returned, and after the
\* drain loop every host has exactly one result received and one entry in
\* the map, the one its own task produced.
C20_AggregateAfterAllTasks ==
    /\ (readLog # <<>> \/ DOMAIN NodeSubnetSyncStatus # {}) => AllTasksDone
    /\ mainPc \in {"close", "drain", "aggregated"}
          => (AllTasksDone /\ ~panicked)
    /\ mainPc = "aggregated"
          => /\ DOMAIN readLog = Range(hosts)
             /\ DOMAIN NodeSubnetSyncStatus = Range(hosts)
             /\ \A i \in 1..Len(hosts) :
                   /\ readLog[hosts[i]] = 1
                   /\ NodeSubnetSyncStatus[hosts[i]] = Recorded(taskRes[i])

\* the task of the first host failed, that of the second reported Syncing
\* and both are in the map, each received once
C20_Witness ==
    /\ mainPc = "aggregated"
    /\ Len(hosts) >= 2
    /\ taskRes[1].Err # Nil
    /\ taskRes[2] = [Value |-> Syncing, Err |-> Nil]
    /\ readLog[hosts[2]] = 1
    /\ NodeSubnetSyncStatus[hosts[1]] = ""
    /\ NodeSubnetSyncStatus[hosts[2]] = Syncing

\* host number i of the inventory is among the failed nodes that many times
TimesFailed(i) == CountOf(failedNodes, hosts[i])

\* the per-host loop has finished with host number i
Processed(i) == i < cur

\* one outcome per host: a host the loop has finished with either failed
\* once or had its add-validator action succeed, never both; the hosts
\* still to come have no outcome and none of their calls made; whatever
\* was issued for a host was issued on that host's own Syncing status
OneOutcomePerHost ==
    \A i \in 1..Len(hosts) :
       /\ Processed(i) =>
             /\ TimesFailed(i) <= 1
             /\ (TimesFailed(i) = 1) # (hostLog[i].subnetAdd = "ok")
       /\ i = cur => (TimesFailed(i) = 0 /\ hostLog[i].subnetAdd = "none")
       /\ i > cur => (TimesFailed(i) = 0 /\ hostLog[i] = NoLog)
       /\ hostLog[i] # NoLog =>
             /\ hosts[i] \in DOMAIN NodeSubnetSyncStatus
             /\ NodeSubnetSyncStatus[hosts[i]] = Syncing

PrimaryEstablished(i) ==
    \/ hostLog[i].primary = "already"
    \/ hostLog[i].primary = "added" /\ hostLog[i].observed

\* C22: addNodeAsSubnetValidator is called for a host only when its node
\* was already a Primary Network validator or was just added as one and
\* has been observed to be validating.
C22_SubnetAfterPrimary ==
    \A i \in 1..Len(hosts) :
       (hostLog[i].subnetAdd # "none" \/ (i = cur /\ mainPc = "addSubnet"))
          => PrimaryEstablished(i)

\* the subnet sync status the map holds for host number i
StatusOf(i) ==
    IF hosts[i] \in DOMAIN NodeSubnetSyncStatus
    THEN NodeSubnetSyncStatus[hosts[i]] ELSE ""

\* C23: a validator transaction, for the Primary Network or for the
\* subnet, is attempted for a host only if its subnet sync status is
\* exactly Syncing; a host the loop has finished with whose status is
\* missing, Validating or anything else is among the failed nodes with
\* none attempted, and the command then returns an error.
C23_OnlySyncingHosts ==
    /\ \A i \in 1..Len(hosts) :
          /\ hostLog[i] # NoLog => StatusOf(i) = Syncing
          /\ (Processed(i) /\ StatusOf(i) # Syncing)
                => (TimesFailed(i) = 1 /\ hostLog[i] = NoLog)
    /\ (mainPc = "returned" /\ hosts # <<>>
          /\ \E i \in 1..Len(hosts) : StatusOf(i) # Syncing)
          => retErr = ErrFailedNodes

\* of three hosts the first is Validating, the status of the second could
\* not be fetched and the third, Syncing, became a subnet validator; the
\* command returned the error
C23_Witness ==
    /\ mainPc = "returned"
    /\ Len(hosts) = 3
    /\ StatusOf(1) = Validating
    /\ StatusOf(2) = ""
    /\ StatusOf(3) = Syncing
    /\ hostLog[3].subnetAdd = "ok"
    /\ failedNodes = <<hosts[1], hosts[2]>>
    /\ nodeErrors = <<ErrAlreadyValidator, Nil>>
    /\ retErr = ErrFailedNodes

\* how many results of host number i are in the channel or were received
ResultsOf(i) ==
    Cardinality({k \in 1..Len(nodeResultChannel) :
                    nodeResultChannel[k].NodeID = hosts[i]})
    + (IF hosts[i] \in DOMAIN readLog THEN readLog[hosts[i]] ELSE 0)

\* C24: the fan-out of validateSubnet neither blocks nor races: the channel
\* never holds more results than there are hosts, a task that is about to
\* send finds the channel open and with room, every task sends exactly one
\* result, the channel is closed only when every task has finished, the
\* command can always take a step until the drain loop has ended, and
\* after the drain loop exactly one result per host has been received.
C24_FanOutNeverBlocks ==
    /\ ~panicked
    /\ Len(nodeResultChannel) <= Len(hosts)
    /\ \A i \in 1..Len(hosts) :
          /\ taskPc[i] = "send"
                => (~closed /\ Len(nodeResultChannel) < Len(hosts))
          /\ ResultsOf(i) = IF taskPc[i] \in {"sent", "done"} THEN 1 ELSE 0
    /\ closed => AllTasksDone
    /\ mainPc \in {"start", "spawn", "close", "drain"} => ENABLED ValidateNext
    /\ mainPc \in {"aggregated", "returned"}
          => /\ nodeResultChannel = <<>>
             /\ \A i \in 1..Len(hosts) : ResultsOf(i) = 1

\* every task of a full inventory has sent its result before any was
\* received: the channel is full and still open
C24_Witness ==
    /\ Len(hosts) = MaxHosts
    /\ Len(nodeResultChannel) = Len(hosts)
    /\ ~closed
    /\ \A i \in 1..Len(hosts) : taskPc[i] \in {"sent", "done"}

\* no host is twice among the failed nodes
NoDuplicates(s) == \A i, j \in 1..Len(s) : s[i] = s[j] => i = j

\* C25: in every state of validateSubnet failedNodes and nodeErrors have
\* equal length and no host is twice in failedNodes, so the report finds
\* an error for every failed node; once the loop has run, the command
\* returns an error exactly when a host failed, and it returns only after
\* every host of the inventory has been processed, failed ones before it
\* or not.
C25_FailedNodesAndErrorsAligned ==
    /\ Len(failedNodes) = Len(nodeErrors)
    /\ NoDuplicates(failedNodes)
    /\ \A k \in 1..Len(failedNodes) :
          \E i \in 1..Len(hosts) : Processed(i) /\ failedNodes[k] = hosts[i]
    /\ retErr # IndexOutOfRange
    /\ (mainPc = "returned" /\ retErr # ErrSetup)
          => /\ cur = Len(hosts) + 1
             /\ (retErr # Nil) <=> (failedNodes # <<>>)
             /\ retErr \in {Nil, ErrFailedNodes}

\* the first of three hosts failed with a nil error, the second on its
\* add-validator call, the third was processed all the same and succeeded
C25_Witness ==
    /\ mainPc = "returned"
    /\ Len(hosts) = 3
    /\ failedNodes = <<hosts[1], hosts[2]>>
    /\ nodeErrors = <<Nil, ErrAddValidator>>
    /\ hostLog[3].subnetAdd = "ok"
    /\ retErr = ErrFailedNodes

\* C28: waitForNodeToBePrimaryNetworkValidator makes at most 5 validator
\* checks and then returns: it goes on only after a check that found the
\* node not validating, returns at the first check that finds it
\* validating, returns an error exactly when its last check failed, and
\* returns nil also when all 5 checks found the node not validating.
C28_WaitEndsWithinFiveChecks ==
    /\ Len(pollSeen) <= 5
    /\ \A k \in 1..(Len(pollSeen) - 1) : pollSeen[k] = "not"
    /\ mainPc = "waitPrimary"
          => /\ Len(pollSeen) < 5
             /\ \A k \in 1..Len(pollSeen) : pollSeen[k] = "not"
             /\ ENABLED PollCheck
    /\ mainPc = "waitReturned"
          => /\ pollSeen # <<>>
             /\ (pollRet # Nil) <=> (pollSeen[Len(pollSeen)] = "err")
             /\ pollRet \in {Nil, ErrCheck}
             /\ pollSeen[Len(pollSeen)] = "not" => Len(pollSeen) = 5

\* five checks found the node not validating and the wait returned nil
C28_Witness ==
    /\ mainPc = "waitReturned"
    /\ pollSeen = <<"not", "not", "not", "not", "not">>
    /\ pollRet = Nil

\* C26: AddValidator, RemoveValidator and Deploy get to
\* getMultisigTxOptions only with a wallet that controls at least one of
\* the subnet auth keys, so walletAddresses[0] never indexes an empty
\* slice: no call panics, and the change owner of the transaction built on
\* the multisig path is an address of the wallet that is a subnet auth key.
C26_OptionsNeverPanic ==
    /\ last.err # Panic
    /\ (last.op \in {"AddValidator", "RemoveValidator", "Deploy"}
        /\ last.path = "multisig")
          => /\ ~ControlsNone(last.strs)
             /\ \A i \in 1..Len(last.built) :
                   last.built[i].kind = ActionKind(last.op)
                      => /\ last.built[i].change # NoChange
                         /\ last.built[i].change.addrs[1]
                               \in Named(last.strs) \cap kc

\* RemoveValidator with two auth keys of which the wallet controls only
\* the second: the options are computed and the transaction is built
C26_Witness ==
    /\ last.op = "RemoveValidator"
    /\ last.strs = <<AddrStr("X"), AddrStr("Y")>>
    /\ kc = {"Y", "Z"}
    /\ last.path = "multisig"
    /\ last.err = Nil
    /\ Len(last.built) = 1
    /\ last.built[1].change.addrs = <<"Y">>

\* the places of the trace of the last call where stage was entered
Places(stage) == {k \in 1..Len(last.trace) : last.trace[k] = stage}

\* C27: Deploy has the CreateSubnet transaction issued and accepted before
\* the blockchain transaction is built, and does not undo it: a Deploy
\* that ends in an error returns isFullySigned = false, no subnet ID, no
\* blockchain ID and no transaction, also when the subnet has been created.
C27_DeployFailsAfterSubnetCreated ==
    last.op = "Deploy"
       => /\ \A i \in 1..Len(last.built) :
                last.built[i].kind = "CreateChain"
                   => /\ i = 2
                      /\ last.built[1].kind = "CreateSubnet"
                      /\ Len(last.accepted) >= 1
                      /\ last.accepted[1] = last.submitted[1]
                      /\ last.accepted[1].kind = "CreateSubnet"
                      /\ \E b \in Places("build"), s \in Places("issue") :
                            /\ s < b
                            /\ \A k \in Places("build") : k <= b
          /\ last.err # Nil
                => /\ ~last.full
                   /\ last.subnetID = 0
                   /\ last.id = Empty
                   /\ last.tx = NoTx

\* the subnet was created, then the builder failed on the blockchain
\* transaction: Deploy returned the error and no subnet ID
C27_Witness ==
    /\ last.op = "Deploy"
    /\ last.fail = "build"
    /\ last.err = ErrBuild
    /\ Len(last.accepted) = 1
    /\ last.accepted[1].kind = "CreateSubnet"
    /\ last.subnetID = 0
    /\ last.tx = NoTx

\* C29: getChainID returns a chain ID only when the lookup has just
\* reported it as new, and then at once; a chain ID reported as existing
\* leads back to the prompt and is not the one returned by that lookup;
\* an error of the prompt or of the lookup is returned at once, with a nil
\* chain ID.
C29_ReturnsOnlyNewChainID ==
    /\ chainRet.chainID # NoChainID
          => /\ chainPc = "returned"
             /\ chainRet.err = Nil
             /\ Len(reported) = Len(entered)
             /\ chainRet.chainID = entered[Len(entered)]
             /\ reported[Len(reported)] = "new"
             /\ ToString(chainRet.chainID) \notin knownChainIDs
    /\ chainRet.err # Nil
          => /\ chainPc = "returned"
             /\ chainRet.chainID = NoChainID
             /\ \/ chainRet.err = ErrPrompt /\ Len(reported) = Len(entered)
                \/ /\ chainRet.err = ErrLookup
                   /\ reported # <<>>
                   /\ reported[Len(reported)] = "err"
    /\ chainPc = "returned"
          => (chainRet.err # Nil \/ chainRet.chainID # NoChainID)
    /\ \A k \in 1..Len(reported) :
          /\ reported[k] = "exists"
                => /\ ToString(entered[k]) \in knownChainIDs
                   /\ chainRet.chainID # entered[k]
                   /\ k = Len(entered)
                         => (chainPc = "prompt" \/ chainRet.err = ErrPrompt)
          /\ reported[k] \in {"new", "err"}
                => (k = Len(entered) /\ chainPc = "returned")

\* the user entered an existing chain ID twice and then a new one, which
\* was returned
C29_Witness ==
    /\ chainPc = "returned"
    /\ entered = <<1, 1, 2>>
    /\ reported = <<"exists", "exists", "new">>
    /\ chainRet = [chainID |-> 2, err |-> Nil]

\* what waitForOperation has returned fits the way it ended
ReturnedAsItEnded ==
    gcpPc = "returned"
       => /\ gcpRet \in {Nil, ErrGetStatus, ErrOperationFailed, ErrTimeout,
                         ErrCanceled}
          /\ (gcpRet = Nil) <=> (lastStatus = "DONE")
          /\ (gcpRet = ErrGetStatus) <=> (lastStatus = "err")
          /\ (gcpRet = ErrOperationFailed) <=> (lastStatus = "DONE_ERROR")
          /\ gcpRet = ErrTimeout => now > deadline
          /\ gcpRet = ErrCanceled => (ctxDone /\ now <= deadline)

\* C30: waitForOperation returns nil only when its last status request
\* found the operation DONE without error; otherwise it returns one of
\* four errors: the request failed, the operation is DONE with an error,
\* the deadline has passed, or the context is cancelled; it makes no more
\* status requests than the seconds to the deadline allow, and it always
\* returns.
C30_WaitForOperationEnds ==
    /\ [](ReturnedAsItEnded /\ getCalls <= deadline + 2)
    /\ <>(gcpPc = "returned")

\* the operation was still running when the deadline had passed, after
\* more than one status request and with the context not cancelled
C30_Witness ==
    /\ gcpPc = "returned"
    /\ gcpRet = ErrTimeout
    /\ lastStatus = "RUNNING"
    /\ getCalls >= 3
    /\ ~ctxDone

====
